---- MODULE Spec2Model ----
(***************************************************************************)
(* A model of build_sfc_schools_heatmap.py: the pipeline                   *)
(*   extract_school_data -> geocode_postcodes -> calculate_metrics ->      *)
(*   (save json, export_csv) -> build_county_data -> generate_html         *)
(* run by main().                                                          *)
(*                                                                         *)
(* Representation.                                                         *)
(*  - The bundle text js is a sequence of tokens; a token is one match of  *)
(*    region_header_pattern or of school_pattern, and the position of a    *)
(*    match (m.start()) is the token's index.  A school match holds no     *)
(*    double quote outside its fixed field syntax, so it never contains a  *)
(*    region header and no span boundary cuts through one.                 *)
(*  - A postcode is a sequence of one-character strings.                   *)
(*  - Latitudes and longitudes returned by the service are integers in     *)
(*    units of 1e-6 degree; round(x, 5) gives integers in units of 1e-5.   *)
(*  - A percentage is held in tenths (round(x, 1) * 10).                   *)
(*  - f"{pacts:,}" and the label texts are kept structured (kind, source   *)
(*    region, parts) instead of being rendered to characters.              *)
(***************************************************************************)
EXTENDS Integers, Sequences, FiniteSets, TLC

VARIABLES
    pc,             \* position of main() / of the function under study
    js,             \* the bundle text, as a sequence of tokens
    schools,        \* main's variable `schools`
    region_data,    \* main's variable `region_data`
    arg_schools,    \* the list object handed to geocode_postcodes (mutated in place)
    disk,           \* data/postcode_geocodes.json: the file's state
    disk0,          \* the file's state when the current run loaded it
    run,            \* number of runs of geocode_postcodes started so far
    prev_failed,    \* the previous run's failed batches: their postcodes, and
                    \* those among them that run ended without a cache entry for
    response,       \* items of the response the try block has just handled
    cached,         \* geocode_postcodes' local dict `cached`
    postcodes_list, \* geocode_postcodes' local `postcodes_list`
    batch_i,        \* geocode_postcodes' loop variable i (0-based offset)
    requests,       \* every batch POSTed to api.postcodes.io, in order
    failed,         \* batch numbers whose try-block raised
    slept,          \* batch numbers after which time.sleep(0.15) ran
    written,        \* files written by the stages after extract_school_data
    region_agg,     \* build_county_data's local region_agg
    region_order,   \* insertion order of region_agg's keys
    already_mapped, \* build_county_data's local already_mapped
    calls,          \* number of calls of build_county_data so far
    county_pacts, county_pupils, county_schools, county_labels,
    warnings,       \* region names printed in an unmatched WARNING
    direct,         \* region names whose aggregate was assigned in step 3
    geojson         \* the boundary features, annotated by build_county_data

vars == << pc, js, schools, region_data, arg_schools, disk, disk0, run,
           prev_failed, response, cached,
           postcodes_list, batch_i, requests, failed, slept, written,
           region_agg, region_order, already_mapped, calls,
           county_pacts, county_pupils, county_schools, county_labels,
           warnings, direct, geojson >>

(***************************************************************************)
(* Generic helpers                                                         *)
(***************************************************************************)
Range(s) == { s[i] : i \in 1..Len(s) }

EmptyMap == [x \in {} |-> 0]

\* dict.get(k, d)
Get(d, k, dflt) == IF k \in DOMAIN d THEN d[k] ELSE dflt

\* d[k] = v
Put(d, k, v) == [x \in (DOMAIN d) \cup {k} |-> IF x = k THEN v ELSE d[x]]

RECURSIVE SumSeq(_)
SumSeq(s) == IF s = << >> THEN 0 ELSE Head(s) + SumSeq(Tail(s))

RECURSIVE SelectIdx(_, _, _)
\* the subsequence of s at the indices in keep, order preserved
SelectIdx(s, keep, i) ==
    IF i > Len(s) THEN << >>
    ELSE (IF i \in keep THEN << s[i] >> ELSE << >>) \o SelectIdx(s, keep, i + 1)

\* all sequences over S of length at most n
SeqsUpTo(S, n) == UNION { [1..k -> S] : k \in 0..n }

(***************************************************************************)
(* Bounds of the model                                                     *)
(***************************************************************************)
MaxTokens     == 4   \* longest bundle text, in tokens           (Spec)
MaxGeoSchools == 3   \* longest list handed to geocode_postcodes (SpecGeo)
MaxMetSchools == 2   \* longest list handed to calculate_metrics (SpecMetrics)
MaxAggSchools == 2   \* longest working set handed to build_county_data (SpecCounty)
MaxCalls      == 2   \* calls of build_county_data on the same inputs (SpecCountyAgain)
MaxRuns       == 2   \* runs of the script one after the other  (SpecRuns, SpecCrash)

(***************************************************************************)
(* Configuration tables (module level of the script)                       *)
(***************************************************************************)
MERGE_TARGETS == << "Greater London", "Greater Manchester", "Somerset", "Durham" >>

MERGE_MAP ==
    [ g \in Range(MERGE_TARGETS) |->
        CASE g = "Greater London" ->
               << "London, Bromley", "London, Central", "London, East",
                  "London, North West", "London, North", "London, South East",
                  "London, South West", "London, West" >>
          [] g = "Greater Manchester" -> << "Greater Manchester", "Manchester" >>
          [] g = "Somerset" -> << "Somerset", "Somerset, Bath" >>
          [] g = "Durham" -> << "County Durham", "Tees Valley" >> ]

NATIONAL_SOURCES == << "Scotland", "Wales", "Northern Ireland" >>

NATIONAL_REGIONS ==
    [ n \in Range(NATIONAL_SOURCES) |->
        CASE n = "Scotland" ->
               << "Central", "Dumfries and Galloway", "Eilean Siar", "Fife",
                  "Grampian", "Highland", "Lothian", "Orkney Islands",
                  "Scottish Borders", "Shetland Islands", "Strathclyde", "Tayside" >>
          [] n = "Wales" ->
               << "Clwyd", "Dyfed", "Gwent", "Gwynedd", "Mid Glamorgan",
                  "Powys", "South Glamorgan", "West Glamorgan" >>
          [] n = "Northern Ireland" ->
               << "Antrim", "Armagh", "Down", "Fermanagh", "Londonderry", "Tyrone" >> ]

RENAME_MAP == [ n \in {"County Durham"} |-> "Durham" ]

\* the script's set of regions with no boundary (a reserved word in TLA+, hence the spelling)
Omitted == { "Channel Islands", "Isle of Man", "National (UK)" }

(***************************************************************************)
(* Step 1: extract_school_data                                             *)
(***************************************************************************)
\* An optional value is a sequence of length at most one: << >> is the empty
\* capture of pupils:"(\d*)", a dict key not set yet, or a JSON null.
None == << >>
Some(x) == << x >>

RegionToken(name, declared) ==
    [type |-> "region", name |-> name, pacts |-> declared,
     pupils |-> 0, postcode |-> << >>]

SchoolToken(pacts, pupils, postcode) ==
    [type |-> "school", name |-> "", pacts |-> pacts,
     pupils |-> pupils, postcode |-> postcode]

\* list(re.finditer(region_header_pattern, js)), as the match positions
region_matches(text) ==
    SelectIdx([i \in 1..Len(text) |-> i],
              { i \in 1..Len(text) : text[i].type = "region" }, 1)

\* spans that all run to the end of the text
region_spans_to_end(text) ==
    LET rm == region_matches(text) IN
    [ i \in 1..Len(rm) |->
        [name  |-> text[rm[i]].name,
         pacts |-> text[rm[i]].pacts,
         start |-> rm[i],
         end   |-> Len(text) + 1] ]

\* region_spans: (name, declared pacts, start, end), end exclusive
region_spans(text) ==
    LET rm == region_matches(text) IN
    [ i \in 1..Len(rm) |->
        [name  |-> text[rm[i]].name,
         pacts |-> text[rm[i]].pacts,
         start |-> rm[i],
         end   |-> IF i + 1 <= Len(rm) THEN rm[i + 1] ELSE Len(text) + 1] ]

\* one dict of schools.append({...}) for a school match tok inside region_name
SchoolOf(tok, region_name) ==
    [pacts    |-> tok.pacts,
     pupils   |-> IF tok.pupils = None THEN 0 ELSE tok.pupils[1],
     postcode |-> tok.postcode,
     lat      |-> 0,
     lng      |-> 0,
     region   |-> region_name,
     pact_pct |-> None]

\* re.findall(school_pattern, js[start:end]) turned into school dicts
SpanSchools(text, span) ==
    LET idx == SelectIdx([i \in 1..Len(text) |-> i],
                         { i \in span.start..(span.end - 1) : text[i].type = "school" }, 1)
    IN  [ k \in 1..Len(idx) |-> SchoolOf(text[idx[k]], span.name) ]

RECURSIVE ExtractLoop(_, _, _, _, _)
\* the loop `for region_name, region_pacts, start, end in region_spans`
ExtractLoop(text, spans, i, acc_schools, acc_rd) ==
    IF i > Len(spans) THEN [schools |-> acc_schools, region_data |-> acc_rd]
    ELSE LET sp == spans[i]
             ss == SpanSchools(text, sp)
             entry == [pacts        |-> sp.pacts,
                       school_pacts |-> SumSeq([k \in 1..Len(ss) |-> ss[k].pacts]),
                       pupils       |-> SumSeq([k \in 1..Len(ss) |-> ss[k].pupils]),
                       school_count |-> Len(ss)]
         IN  ExtractLoop(text, spans, i + 1, acc_schools \o ss,
                         Put(acc_rd, sp.name, entry))

\* a parser that goes on without any region header
HeadersFound_always(text) == TRUE

\* `if not region_matches: raise RuntimeError(...)`: does the parse go on
HeadersFound(text) == region_matches(text) # << >>

Extracted(text) == ExtractLoop(text, region_spans(text), 1, << >>, EmptyMap)

(***************************************************************************)
(* Step 2: geocode_postcodes                                               *)
(***************************************************************************)
\* The script sets batch_size = 100; the model scales it down with the size of
\* its inputs, so that a run of a few postcodes still takes several batches.
batch_size == 2

\* data/postcode_geocodes.json: absent, or holding a dict
NoFile == [exists |-> FALSE, content |-> EmptyMap, torn |-> FALSE]
File(content) == [exists |-> TRUE, content |-> content, torn |-> FALSE]

\* the file between open(cache_path, "w"), which empties it, and the end of
\* json.dump: none or a part of the text is there, and it is not a JSON document
TornFile == [exists |-> TRUE, content |-> EmptyMap, torn |-> TRUE]

\* str.upper(), on the alphabet of the model
Upper(c) ==
    CASE c = "a" -> "A" [] c = "b" -> "B" [] c = "c" -> "C"
      [] c = "d" -> "D" [] c = "e" -> "E" [] c = "f" -> "F"
      [] OTHER -> c

UpperSeq(s) == [i \in 1..Len(s) |-> Upper(s[i])]

IsSpace(c) == c \in {" ", "\t", "\n"}

RECURSIVE LStrip(_)
LStrip(s) == IF s # << >> /\ IsSpace(Head(s)) THEN LStrip(Tail(s)) ELSE s

RECURSIVE RStrip(_)
RStrip(s) == IF s # << >> /\ IsSpace(s[Len(s)])
             THEN RStrip(SubSeq(s, 1, Len(s) - 1)) ELSE s

\* str.strip()
Strip(s) == RStrip(LStrip(s))

\* str.replace(" ", "")
RemoveSpaces(s) == SelectSeq(s, LAMBDA c : c # " ")

\* s["postcode"].upper().strip().replace(" ", "")
Norm(raw) == RemoveSpaces(Strip(UpperSeq(raw)))

\* item.get("query", "").upper().replace(" ", "")
NormQuery(q) == RemoveSpaces(UpperSeq(q))

\* ord(c), on the alphabet of the model
CodePoint(c) ==
    CASE c = "\t" -> 9  [] c = "\n" -> 10 [] c = " " -> 32
      [] c = "1" -> 49  [] c = "2" -> 50  [] c = "3" -> 51
      [] c = "A" -> 65  [] c = "B" -> 66  [] c = "C" -> 67
      [] c = "D" -> 68  [] c = "E" -> 69  [] c = "F" -> 70
      [] c = "a" -> 97  [] c = "b" -> 98  [] c = "c" -> 99
      [] c = "d" -> 100 [] c = "e" -> 101 [] c = "f" -> 102

RECURSIVE StrLess(_, _)
\* a < b for Python strings
StrLess(a, b) ==
    IF b = << >> THEN FALSE
    ELSE IF a = << >> THEN TRUE
    ELSE IF CodePoint(Head(a)) # CodePoint(Head(b))
         THEN CodePoint(Head(a)) < CodePoint(Head(b))
         ELSE StrLess(Tail(a), Tail(b))

RECURSIVE Sorted(_)
\* sorted(S) for a set of strings
Sorted(S) ==
    IF S = {} THEN << >>
    ELSE LET m == CHOOSE x \in S : \A y \in S \ {x} : StrLess(x, y)
         IN  << m >> \o Sorted(S \ {m})

\* a loop that does not look into the cache
unique_postcodes_cached_too(ss, cache) ==
    { Norm(ss[i].postcode) : i \in 1..Len(ss) } \ { << >> }

\* the set built by the loop over schools: new, non-empty normalized postcodes
unique_postcodes(ss, cache) ==
    { Norm(ss[i].postcode) : i \in 1..Len(ss) } \ ({ << >> } \cup DOMAIN cache)

\* postcodes_list[i:i + batch_size], i being a 0-based offset
Batch(list, i) ==
    SubSeq(list, i + 1, IF i + batch_size < Len(list) THEN i + batch_size ELSE Len(list))

\* (len(postcodes_list) + batch_size - 1) // batch_size
total_batches(list) == (Len(list) + batch_size - 1) \div batch_size

\* i // batch_size + 1
batch_num(i) == (i \div batch_size) + 1

\* where the loop body goes after the try block completed: the inter-batch
\* sleep unless this was the last batch, then the next iteration or the save
AfterBatch(i, list) ==
    IF batch_num(i) < total_batches(list) THEN "geo_sleep" ELSE "geo_persist"

\* a handler that ends in `continue`: no sleep after a batch that failed
InterBatchDelay_not_after_failure(s, i) ==
    IF batch_num(i) \in failed THEN s ELSE s \cup { batch_num(i) }

\* the batches time.sleep(0.15) has run after, once it has run after the
\* batch at offset i: the `if batch_num < total_batches` is below the
\* try/except, so it is reached after a failed batch as well
InterBatchDelay(s, i) == s \cup { batch_num(i) }

\* a handler that lets the exception leave geocode_postcodes
AfterFailedBatch_raises(i, list) == "fatal"

\* a handler that returns to the loop but, after the last batch, past the save
AfterFailedBatch_skips_save(i, list) ==
    IF batch_num(i) < total_batches(list) THEN "geo_sleep" ELSE "geo_lookup"

\* a handler that leaves the loop: the batches after a failed one are not sent
AfterFailedBatch_breaks(i, list) == "geo_persist"

\* where the loop body goes after `except Exception`: the handler prints a
\* warning and falls through to the same inter-batch code
AfterFailedBatch(i, list) == AfterBatch(i, list)

\* Python truthiness of result.get("latitude") / result.get("longitude")
Truthy(x) == x # None /\ x[1] # 0

\* round(x, 5), from 1e-6 to 1e-5 degree units (no input of the model ends in 5)
Round5(x) == (x + 5) \div 10

\* a loop body that reads the position without testing `result` first:
\* None.get("latitude") raises
ItemRaises_on_null(item) == ~ item.typed \/ ~ item.present

\* does the loop body raise on this item: `result and result.get(...)` passes
\* over a null or missing result, and calls .get on anything else, which a
\* result that is not an object (a string, a number) does not have
ItemRaises(item) == ~ item.typed

\* the first item of a response body the loop raises on, Len + 1 if none
FirstRaising(items) ==
    LET bad == { i \in 1..Len(items) : ItemRaises(items[i]) } IN
    IF bad = {} THEN Len(items) + 1
    ELSE CHOOSE i \in bad : \A j \in bad : i <= j

\* the body of `for item in data.get("result", [])` for one item
CacheItem(cache, item) ==
    IF item.present /\ Truthy(item.latitude) /\ Truthy(item.longitude)
    THEN Put(cache, NormQuery(item.query),
             << Round5(item.latitude[1]), Round5(item.longitude[1]) >>)
    ELSE cache

RECURSIVE CacheItems(_, _, _)
\* the first k iterations of that loop over the response items
CacheItems(cache, items, k) ==
    IF k = 0 THEN cache
    ELSE CacheItem(CacheItems(cache, items, k - 1), items[k])

\* the loop assigning s["lat"], s["lng"] from the cache
Located(ss, cache) ==
    [ i \in 1..Len(ss) |->
        LET k == Norm(ss[i].postcode) IN
        IF k \in DOMAIN cache
        THEN [ss[i] EXCEPT !.lat = cache[k][1], !.lng = cache[k][2]]
        ELSE ss[i] ]

\* [s for s in schools if s["lat"] != 0.0]
WithCoordinates(ss) == SelectSeq(ss, LAMBDA s : s.lat # 0)

(***************************************************************************)
(* Step 3: calculate_metrics                                               *)
(***************************************************************************)
\* round(min(pacts / pupils * 100, 100), 1) for pupils > 0, in tenths.
\* Python rounds the double to the nearest tenth and an exact tie to the even
\* tenth; on the inputs of the model the double pacts / pupils * 100 is the
\* exact quotient whenever that quotient is a tie.
RoundedPct(pacts, pupils) ==
    IF pacts >= pupils THEN 1000
    ELSE LET q == (pacts * 1000) \div pupils
             r == (pacts * 1000) % pupils
         IN  IF 2 * r < pupils THEN q
             ELSE IF 2 * r > pupils THEN q + 1
             ELSE IF q % 2 = 0 THEN q ELSE q + 1

\* the percentage without min(..., 100)
SchoolPct_unclamped(pacts, pupils) ==
    IF pupils > 0 THEN ((pacts * 2000) \div pupils + 1) \div 2 ELSE 0

\* the if/else of calculate_metrics for one school
SchoolPct(pacts, pupils) == IF pupils > 0 THEN RoundedPct(pacts, pupils) ELSE 0

\* the loop `for s in schools` of calculate_metrics
WithMetrics(ss) ==
    [ i \in 1..Len(ss) |->
        [ss[i] EXCEPT !.pact_pct = Some(SchoolPct(ss[i].pacts, ss[i].pupils))] ]

(***************************************************************************)
(* Step 4: build_county_data                                               *)
(***************************************************************************)
\* the if/else giving region_agg[name]["pact_pct"]
RegionPct(pacts, pupils) == IF pupils > 0 THEN RoundedPct(pacts, pupils) ELSE 0

\* a feature's pct without min(..., 100)
CountyPct_unclamped(pacts, pupils) ==
    IF pupils > 0 THEN ((pacts * 2000) \div pupils + 1) \div 2 ELSE 0

\* the conditional expression giving a feature's pct
CountyPct(pacts, pupils) == IF pupils > 0 THEN RoundedPct(pacts, pupils) ELSE 0

RECURSIVE AggLoop(_, _, _)
\* the loop filling the defaultdict region_agg (pacts, pupils, school_count)
AggLoop(ss, i, acc) ==
    IF i > Len(ss) THEN acc
    ELSE LET s == ss[i]
             old == Get(acc, s.region, [pacts |-> 0, pupils |-> 0, school_count |-> 0])
         IN  AggLoop(ss, i + 1,
                     Put(acc, s.region,
                         [pacts        |-> old.pacts + s.pacts,
                          pupils       |-> old.pupils + s.pupils,
                          school_count |-> old.school_count + 1]))

\* a region_agg that outlives the call: the sums of the call before are still in it
NewRegionAgg_kept ==
    [ n \in DOMAIN region_agg |->
        [pacts        |-> region_agg[n].pacts,
         pupils       |-> region_agg[n].pupils,
         school_count |-> region_agg[n].school_count] ]

\* region_agg = defaultdict(...): a local, created empty by every call
NewRegionAgg == EmptyMap

\* region_agg after the loop adding pact_pct
RegionAgg(ss) ==
    LET a == AggLoop(ss, 1, NewRegionAgg) IN
    [ n \in DOMAIN a |->
        [pacts        |-> a[n].pacts,
         pupils       |-> a[n].pupils,
         school_count |-> a[n].school_count,
         pact_pct     |-> RegionPct(a[n].pacts, a[n].pupils)] ]

RECURSIVE RegionOrder(_, _, _)
\* the keys of region_agg in insertion order (first school of each region)
RegionOrder(ss, i, acc) ==
    IF i > Len(ss) THEN acc
    ELSE RegionOrder(ss, i + 1,
                     IF ss[i].region \in Range(acc) THEN acc
                     ELSE Append(acc, ss[i].region))

\* region_agg.get(n, {}).get("pacts", 0) and its siblings
AggPacts(agg, n)   == IF n \in DOMAIN agg THEN agg[n].pacts ELSE 0
AggPupils(agg, n)  == IF n \in DOMAIN agg THEN agg[n].pupils ELSE 0
AggSchools(agg, n) == IF n \in DOMAIN agg THEN agg[n].school_count ELSE 0

EmptyLabel == [kind |-> "", src |-> "", parts |-> << >>]

\* " + ".join(parts), each part being f"{n}: {pacts:,}"
MergeLabel(parts) == [kind |-> "merge", src |-> "", parts |-> parts]

\* f"{sfc_name} total (not broken down by sub-region)"
NationalLabel(sfc_name) == [kind |-> "national", src |-> sfc_name, parts |-> << >>]

NoCounties == [cp |-> EmptyMap, cpu |-> EmptyMap, cs |-> EmptyMap, cl |-> EmptyMap]

\* one iteration of `for geo_name, sfc_names in MERGE_MAP.items()`
MergeStep(agg, st, geo_name) ==
    LET sfc_names == MERGE_MAP[geo_name]
        total_pacts   == SumSeq([i \in 1..Len(sfc_names) |-> AggPacts(agg, sfc_names[i])])
        total_pupils  == SumSeq([i \in 1..Len(sfc_names) |-> AggPupils(agg, sfc_names[i])])
        total_schools == SumSeq([i \in 1..Len(sfc_names) |-> AggSchools(agg, sfc_names[i])])
        contributors  == SelectSeq(sfc_names, LAMBDA n : AggPacts(agg, n) > 0)
        parts == [i \in 1..Len(contributors) |->
                    [name |-> contributors[i], pacts |-> AggPacts(agg, contributors[i])]]
    IN  IF total_pacts > 0 \/ total_schools > 0
        THEN [cp  |-> Put(st.cp, geo_name, total_pacts),
              cpu |-> Put(st.cpu, geo_name, total_pupils),
              cs  |-> Put(st.cs, geo_name, total_schools),
              cl  |-> IF Len(parts) > 1 THEN Put(st.cl, geo_name, MergeLabel(parts))
                      ELSE st.cl]
        ELSE st

RECURSIVE MergeLoop(_, _, _)
MergeLoop(agg, st, i) ==
    IF i > Len(MERGE_TARGETS) THEN st
    ELSE MergeLoop(agg, MergeStep(agg, st, MERGE_TARGETS[i]), i + 1)

\* already_mapped after step 1
MergeSources == UNION { Range(MERGE_MAP[g]) : g \in DOMAIN MERGE_MAP }

RECURSIVE BroadcastTo(_, _, _, _, _)
\* the inner loop `for county in geo_counties`; v holds pacts, pupils, sc
BroadcastTo(st, sfc_name, geo_counties, i, v) ==
    IF i > Len(geo_counties) THEN st
    ELSE BroadcastTo([cp  |-> Put(st.cp, geo_counties[i], v.pacts),
                      cpu |-> Put(st.cpu, geo_counties[i], v.pupils),
                      cs  |-> Put(st.cs, geo_counties[i], v.sc),
                      cl  |-> Put(st.cl, geo_counties[i], NationalLabel(sfc_name))],
                     sfc_name, geo_counties, i + 1, v)

\* one iteration of `for sfc_name, geo_counties in NATIONAL_REGIONS.items()`
NationalStep(agg, st, sfc_name) ==
    LET pacts  == AggPacts(agg, sfc_name)
        pupils == AggPupils(agg, sfc_name)
        sc     == AggSchools(agg, sfc_name)
    IN  IF pacts > 0 \/ sc > 0
        THEN BroadcastTo(st, sfc_name, NATIONAL_REGIONS[sfc_name], 1,
                         [pacts |-> pacts, pupils |-> pupils, sc |-> sc])
        ELSE st

RECURSIVE NationalLoop(_, _, _)
NationalLoop(agg, st, i) ==
    IF i > Len(NATIONAL_SOURCES) THEN st
    ELSE NationalLoop(agg, NationalStep(agg, st, NATIONAL_SOURCES[i]), i + 1)

\* already_mapped when step 3 starts
AlreadyMapped == MergeSources \cup Range(NATIONAL_SOURCES) \cup Omitted

\* target of a region in step 3
DirectTarget(sfc_name) ==
    IF sfc_name \in DOMAIN RENAME_MAP THEN RENAME_MAP[sfc_name] ELSE sfc_name

\* a step 3 that does not look into already_mapped
Claimed_unchecked(sfc_name, mapped) == FALSE

\* is region sfc_name skipped by `if sfc_name in already_mapped: continue`
Claimed(sfc_name, mapped) == sfc_name \in mapped

\* one iteration of `for sfc_name, agg in region_agg.items()`; st also carries
\* the names printed in a WARNING and the names whose aggregate was assigned
DirectStep(agg, st, sfc_name, mapped, geo_names) ==
    IF Claimed(sfc_name, mapped) THEN st
    ELSE LET target == DirectTarget(sfc_name) IN
         IF target \in geo_names
         THEN [st EXCEPT !.cp  = Put(st.cp, target, agg[sfc_name].pacts),
                         !.cpu = Put(st.cpu, target, agg[sfc_name].pupils),
                         !.cs  = Put(st.cs, target, agg[sfc_name].school_count),
                         !.direct = st.direct \cup {sfc_name}]
         ELSE IF sfc_name \notin Omitted
         THEN [st EXCEPT !.warned = st.warned \cup {sfc_name}]
         ELSE st

RECURSIVE DirectLoop(_, _, _, _, _, _)
DirectLoop(agg, order, st, i, mapped, geo_names) ==
    IF i > Len(order) THEN st
    ELSE DirectLoop(agg, order, DirectStep(agg, st, order[i], mapped, geo_names),
                    i + 1, mapped, geo_names)

\* feature["properties"].get("county", feature["properties"].get("name", ""))
FeatureCounty(f) ==
    IF f.county # None THEN f.county[1]
    ELSE IF f.name # None THEN f.name[1]
    ELSE ""

GeoNames(features) == { FeatureCounty(features[i]) : i \in 1..Len(features) }

\* an annotation that skips the counties no aggregate was assigned to
Annotate_only_assigned(f, st) ==
    LET county == FeatureCounty(f) IN
    IF county = "" \/ county \notin DOMAIN st.cp THEN f
    ELSE [f EXCEPT !.props = Some([pacts        |-> st.cp[county],
                                   pupils       |-> st.cpu[county],
                                   pact_pct     |-> CountyPct(st.cp[county], st.cpu[county]),
                                   school_count |-> st.cs[county],
                                   label        |-> Get(st.cl, county, EmptyLabel)])]

\* an annotation that carries over the percentage of the region of the same
\* name instead of computing one from the county's own counts
Annotate_region_pct(f, st) ==
    LET county == FeatureCounty(f)
        agg    == RegionAgg(schools)
    IN  IF county = "" THEN f
        ELSE [f EXCEPT !.props = Some([pacts        |-> Get(st.cp, county, 0),
                                       pupils       |-> Get(st.cpu, county, 0),
                                       pact_pct     |-> IF county \in DOMAIN agg
                                                        THEN agg[county].pact_pct ELSE 0,
                                       school_count |-> Get(st.cs, county, 0),
                                       label        |-> Get(st.cl, county, EmptyLabel)])]

\* the body of `for feature in geojson["features"]`
Annotate(f, st) ==
    LET county == FeatureCounty(f) IN
    IF county = "" THEN f
    ELSE LET pacts  == Get(st.cp, county, 0)
             pupils == Get(st.cpu, county, 0)
             sc     == Get(st.cs, county, 0)
         IN  [f EXCEPT !.props = Some([pacts        |-> pacts,
                                       pupils       |-> pupils,
                                       pact_pct     |-> CountyPct(pacts, pupils),
                                       school_count |-> sc,
                                       label        |-> Get(st.cl, county, EmptyLabel)])]

\* build_county_data(schools, region_data) on the boundary file `features`:
\* the county dicts, the warnings and the annotated features
BuildCounty(ss, rd, features) ==
    LET agg    == RegionAgg(ss)
        order  == RegionOrder(ss, 1, << >>)
        merged == MergeLoop(agg, NoCounties, 1)
        nat    == NationalLoop(agg, merged, 1)
        st0    == [cp |-> nat.cp, cpu |-> nat.cpu, cs |-> nat.cs, cl |-> nat.cl,
                   warned |-> {}, direct |-> {}]
        st     == DirectLoop(agg, order, st0, 1, AlreadyMapped, GeoNames(features))
    IN  [agg |-> agg, order |-> order, st |-> st,
         features |-> [i \in 1..Len(features) |-> Annotate(features[i], st)]]

(***************************************************************************)
(* Inputs of the model                                                     *)
(***************************************************************************)
\* tokens of the bundle text in a full run
MainTokens ==
    { RegionToken("Wales", 200), RegionToken("Kent", 50),
      SchoolToken(10, Some(100), << "a", "b", "1" >>),
      SchoolToken(15, None, << " ", "c", "d", "2" >>),
      SchoolToken(120, Some(100), << "e", "f", "3" >>) }

\* the cache file before a run: absent, or left by an earlier run
InitialDisks ==
    { NoFile, File(<< "A", "B", "1" >> :> << 5150000, -12346 >>) }

\* postcodes as they appear in the bundle
RawPostcodes ==
    { << "a", "b", "1" >>, << "A", "B", " ", "1" >>, << "c", "d", "2", "\t" >>,
      << "e", "f", "3" >>, << >> }

\* lists handed to geocode_postcodes on its own
GeoSchools ==
    { [pacts |-> 10, pupils |-> 100, postcode |-> p, lat |-> 0, lng |-> 0,
       region |-> "Kent", pact_pct |-> None] : p \in RawPostcodes }

\* what api.postcodes.io answers for one postcode: result null, a position,
\* a result without position (Channel Islands, Isle of Man), a latitude that
\* rounds to 0.0 at five decimals, a longitude of exactly 0
ResultValues ==
    { [typed |-> TRUE, present |-> FALSE, latitude |-> None, longitude |-> None],
      [typed |-> TRUE, present |-> TRUE,
       latitude |-> Some(51500004), longitude |-> Some(-123456)],
      [typed |-> TRUE, present |-> TRUE, latitude |-> None, longitude |-> None],
      [typed |-> TRUE, present |-> TRUE,
       latitude |-> Some(4), longitude |-> Some(-123456)],
      [typed |-> TRUE, present |-> TRUE,
       latitude |-> Some(51500004), longitude |-> Some(0)] }

\* a result that is there but is not an object
IllTyped == [typed |-> FALSE, present |-> TRUE, latitude |-> None, longitude |-> None]

\* the response bodies to a batch: one item per postcode, query echoed
Bodies(batch, values) ==
    { [i \in 1..Len(batch) |->
          [query |-> batch[i], typed |-> r[i].typed, present |-> r[i].present,
           latitude |-> r[i].latitude, longitude |-> r[i].longitude]] :
      r \in [1..Len(batch) -> values] }

\* the well-formed ones
Responses(batch) == Bodies(batch, ResultValues)

\* counts handed to calculate_metrics on its own
MetPacts  == { 0, 1, 3, 10, 120 }
MetPupils == { 0, 16, 100, 400 }
MetSchools ==
    { [pacts |-> a, pupils |-> b, postcode |-> << "A", "B", "1" >>,
       lat |-> 5150000, lng |-> -12346, region |-> "Kent", pact_pct |-> None] :
      a \in MetPacts, b \in MetPupils }

\* region names of the working set handed to build_county_data on its own
AggRegionNames ==
    { "London, Central", "London, East", "County Durham", "Durham",
      "Scotland", "Fife", "Isle of Man", "Kent", "Atlantis" }
AggCounts == { << 0, 0 >>, << 5, 0 >>, << 10, 16 >> }
AggSchoolSet ==
    { [pacts |-> c[1], pupils |-> c[2], postcode |-> << "A", "B", "1" >>,
       lat |-> 5150000, lng |-> -12346, region |-> n,
       pact_pct |-> Some(SchoolPct(c[1], c[2]))] :
      n \in AggRegionNames, c \in AggCounts }

\* region_data of a bundle listing exactly the schools ss, each header
\* declaring the sum of its schools
RegionDataOf(ss) ==
    LET a == AggLoop(ss, 1, EmptyMap) IN
    [ n \in DOMAIN a |->
        [pacts |-> a[n].pacts, school_pacts |-> a[n].pacts,
         pupils |-> a[n].pupils, school_count |-> a[n].school_count] ]

\* the same bundle with every header declaring `more` pacts above that sum
RegionDataDeclaring(ss, more) ==
    LET rd == RegionDataOf(ss) IN
    [ n \in DOMAIN rd |-> [rd[n] EXCEPT !.pacts = rd[n].pacts + more] ]

\* boundary features as read from the GeoJSON file
Named(n)  == [county |-> Some(n), name |-> None, props |-> None]
ByName(n) == [county |-> None, name |-> Some(n), props |-> None]
Unnamed   == [county |-> None, name |-> None, props |-> None]

FullBoundary ==
    LET names == MERGE_TARGETS \o NATIONAL_REGIONS["Scotland"]
                 \o NATIONAL_REGIONS["Wales"] \o NATIONAL_REGIONS["Northern Ireland"]
                 \o << "Kent", "Essex" >>
    IN  [i \in 1..Len(names) |-> Named(names[i])]

MixedBoundary ==
    << ByName("Essex"), Unnamed, Named("Durham"), Named("Durham"),
       Named("Fife"), Named("Clwyd"), Named("Dyfed"), ByName("Greater London") >>

BoundarySets == { FullBoundary, MixedBoundary }

(***************************************************************************)
(* main() and the steps of its stages                                      *)
(***************************************************************************)
parseVars  == << js, region_data >>
geoVars    == << disk, disk0, run, prev_failed, response, cached,
                 postcodes_list, batch_i, requests, failed, slept >>
countyVars == << region_agg, region_order, already_mapped, calls,
                 county_pacts, county_pupils, county_schools, county_labels,
                 warnings, direct, geojson >>

\* no run before this one
NoneFailed == [batch |-> {}, unresolved |-> {}]

\* the values of everything main() has not computed yet
Fresh ==
    /\ region_data = EmptyMap
    /\ arg_schools = << >>
    /\ disk0 = NoFile
    /\ run = 0
    /\ prev_failed = NoneFailed
    /\ response = << >>
    /\ cached = EmptyMap
    /\ postcodes_list = << >>
    /\ batch_i = 0
    /\ requests = << >>
    /\ failed = {}
    /\ slept = {}
    /\ written = {}
    /\ region_agg = EmptyMap
    /\ region_order = << >>
    /\ already_mapped = {}
    /\ calls = 0
    /\ county_pacts = EmptyMap
    /\ county_pupils = EmptyMap
    /\ county_schools = EmptyMap
    /\ county_labels = EmptyMap
    /\ warnings = {}
    /\ direct = {}
    /\ geojson = << >>

\* a full run of main() on some bundle text and some cache file
Init ==
    /\ pc = "extract"
    /\ js \in SeqsUpTo(MainTokens, MaxTokens)
    /\ schools = << >>
    /\ disk \in InitialDisks
    /\ Fresh

\* schools, region_data = extract_school_data()
extract_school_data ==
    /\ pc = "extract"
    /\ HeadersFound(js)
    /\ schools' = Extracted(js).schools
    /\ region_data' = Extracted(js).region_data
    /\ pc' = "geo_load"
    /\ UNCHANGED << js, arg_schools, written, geoVars, countyVars >>

\* extract_school_data() raises RuntimeError, which main() does not catch
extract_school_data_raises ==
    /\ pc = "extract"
    /\ ~HeadersFound(js)
    /\ pc' = "fatal"
    /\ UNCHANGED << schools, arg_schools, written, parseVars, geoVars, countyVars >>

\* geocode_postcodes, up to `if unique_postcodes:`
geocode_load ==
    /\ pc = "geo_load"
    /\ ~ disk.torn
    /\ arg_schools' = schools
    /\ disk0' = disk
    /\ run' = run + 1
    /\ cached' = IF disk.exists THEN disk.content ELSE EmptyMap
    /\ postcodes_list' = Sorted(unique_postcodes(schools, cached'))
    /\ batch_i' = 0
    /\ pc' = IF postcodes_list' # << >> THEN "geo_batch" ELSE "geo_lookup"
    /\ UNCHANGED << schools, written, parseVars, disk, prev_failed, response,
                    requests, failed, slept, countyVars >>

\* one batch is POSTed: urllib.request.urlopen(req, timeout=30)
geocode_request ==
    /\ pc = "geo_batch"
    /\ requests' = Append(requests, Batch(postcodes_list, batch_i))
    /\ pc' = "geo_wait"
    /\ UNCHANGED << schools, arg_schools, written, parseVars, disk, disk0, run,
                    prev_failed, response, cached,
                    postcodes_list, batch_i, failed, slept, countyVars >>

\* the try block runs to its end: the loop raises on no item of the body
geocode_response ==
    /\ pc = "geo_wait"
    /\ \E resp \in Bodies(Batch(postcodes_list, batch_i),
                          ResultValues \cup { IllTyped }) :
          /\ FirstRaising(resp) > Len(resp)
          /\ cached' = CacheItems(cached, resp, Len(resp))
          /\ response' = resp
    /\ pc' = AfterBatch(batch_i, postcodes_list)
    /\ UNCHANGED << schools, arg_schools, written, parseVars, disk, disk0, run,
                    prev_failed,
                    postcodes_list, batch_i, requests, failed, slept, countyVars >>

\* the try block raises: at once (network error, unreadable body), or on an
\* item of the body after the items before it have been handled; `response`
\* keeps the items the loop has read
geocode_batch_fails ==
    /\ pc = "geo_wait"
    /\ \/ /\ cached' = cached
          /\ response' = << >>
       \/ \E resp \in Bodies(Batch(postcodes_list, batch_i),
                             ResultValues \cup { IllTyped }) :
             /\ FirstRaising(resp) <= Len(resp)
             /\ cached' = CacheItems(cached, resp, FirstRaising(resp) - 1)
             /\ response' = SubSeq(resp, 1, FirstRaising(resp))
    /\ failed' = failed \cup { batch_num(batch_i) }
    /\ pc' = AfterFailedBatch(batch_i, postcodes_list)
    /\ UNCHANGED << schools, arg_schools, written, parseVars, disk, disk0, run,
                    prev_failed,
                    postcodes_list, batch_i, requests, slept, countyVars >>

\* time.sleep(0.15), then the next iteration of the loop
geocode_sleep ==
    /\ pc = "geo_sleep"
    /\ slept' = InterBatchDelay(slept, batch_i)
    /\ batch_i' = batch_i + batch_size
    /\ response' = << >>
    /\ pc' = "geo_batch"
    /\ UNCHANGED << schools, arg_schools, written, parseVars, disk, disk0, run,
                    prev_failed, cached,
                    postcodes_list, requests, failed, countyVars >>

\* json.dump(cached, f) into the cache file
geocode_persist ==
    /\ pc = "geo_persist"
    /\ disk' = File(cached)
    /\ written' = written \cup { "postcode_geocodes.json" }
    /\ response' = << >>
    /\ pc' = "geo_lookup"
    /\ UNCHANGED << schools, arg_schools, parseVars, disk0, run, prev_failed,
                    cached,
                    postcodes_list, batch_i, requests, failed, slept, countyVars >>

\* the lookup loop, the filter and `return schools`
geocode_return ==
    /\ pc = "geo_lookup"
    /\ arg_schools' = Located(arg_schools, cached)
    /\ schools' = WithCoordinates(arg_schools')
    /\ pc' = "metrics"
    /\ UNCHANGED << written, parseVars, geoVars, countyVars >>

\* json.load(f) raises on a file that is not a JSON document; neither
\* geocode_postcodes nor main() catches it
geocode_load_raises ==
    /\ pc = "geo_load"
    /\ disk.torn
    /\ pc' = "fatal"
    /\ UNCHANGED << schools, arg_schools, written, parseVars, geoVars, countyVars >>

\* the process dies inside `with open(cache_path, "w") as f: json.dump(...)`:
\* before open() the file is untouched, from open() on it is cut short, and
\* once the text is flushed it is the new cache
crash_in_persist ==
    /\ pc = "geo_persist"
    /\ disk' \in { disk, TornFile, File(cached) }
    /\ pc' = "crashed"
    /\ UNCHANGED << schools, arg_schools, written, parseVars, disk0, run,
                    prev_failed, response, cached,
                    postcodes_list, batch_i, requests, failed, slept, countyVars >>

\* the list as extract_school_data hands it over: every school at 0.0, 0.0
Unlocated(ss) == [i \in 1..Len(ss) |-> [ss[i] EXCEPT !.lat = 0, !.lng = 0]]

\* the postcodes of the requests whose batch failed
FailedPostcodes == UNION { Range(requests[b]) : b \in failed }

\* what the run leaves behind of its failed batches
FailedBatches ==
    [batch |-> FailedPostcodes, unresolved |-> FailedPostcodes \ DOMAIN cached]

\* the script is started again on the same bundle: a new process, with the
\* cache file as the last one left it
run_again ==
    /\ pc \in { "metrics", "crashed" }
    /\ run < MaxRuns
    /\ schools' = Unlocated(arg_schools)
    /\ arg_schools' = << >>
    /\ prev_failed' = FailedBatches
    /\ response' = << >>
    /\ cached' = EmptyMap
    /\ postcodes_list' = << >>
    /\ batch_i' = 0
    /\ requests' = << >>
    /\ failed' = {}
    /\ slept' = {}
    /\ pc' = "geo_load"
    /\ UNCHANGED << written, parseVars, disk, disk0, run, countyVars >>

\* schools = calculate_metrics(schools)
calculate_metrics ==
    /\ pc = "metrics"
    /\ schools' = WithMetrics(schools)
    /\ pc' = "export"
    /\ UNCHANGED << arg_schools, written, parseVars, geoVars, countyVars >>

\* json.dump(schools, ...) and export_csv(schools)
save_and_export ==
    /\ pc = "export"
    /\ written' = written \cup { "sfc_school_pacts.json", "sfc_school_pacts.csv" }
    /\ pc' = "county"
    /\ UNCHANGED << schools, arg_schools, parseVars, geoVars, countyVars >>

\* one call of build_county_data that finds `features` in the boundary file
CountyCall(features) ==
    LET r == BuildCounty(schools, region_data, features) IN
    /\ region_agg' = r.agg
    /\ region_order' = r.order
    /\ already_mapped' = AlreadyMapped
    /\ calls' = calls + 1
    /\ county_pacts' = r.st.cp
    /\ county_pupils' = r.st.cpu
    /\ county_schools' = r.st.cs
    /\ county_labels' = r.st.cl
    /\ warnings' = r.st.warned
    /\ direct' = r.st.direct
    /\ geojson' = r.features

\* geojson = build_county_data(schools, region_data)
build_county_data ==
    /\ pc = "county"
    /\ \E features \in BoundarySets : CountyCall(features)
    /\ pc' = "html"
    /\ UNCHANGED << schools, arg_schools, written, parseVars, geoVars >>

\* the features as json.load(f) reads them from the boundary file, which no
\* call writes to: without the properties build_county_data adds in memory
BoundaryFile(features) == [i \in 1..Len(features) |-> [features[i] EXCEPT !.props = None]]

\* build_county_data is called once more in the same process, with the same
\* schools, the same region_data and the same boundary file
build_county_data_again ==
    /\ pc = "html"
    /\ calls < MaxCalls
    /\ CountyCall(BoundaryFile(geojson))
    /\ UNCHANGED << pc, schools, arg_schools, written, parseVars, geoVars >>

\* generate_html(schools, geojson, output_path)
generate_html ==
    /\ pc = "html"
    /\ written' = written \cup { "index.html" }
    /\ pc' = "done"
    /\ UNCHANGED << schools, arg_schools, parseVars, geoVars, countyVars >>

Next ==
    \/ extract_school_data
    \/ extract_school_data_raises
    \/ geocode_load
    \/ geocode_request
    \/ geocode_response
    \/ geocode_batch_fails
    \/ geocode_sleep
    \/ geocode_persist
    \/ geocode_return
    \/ calculate_metrics
    \/ save_and_export
    \/ build_county_data
    \/ generate_html

Spec == Init /\ [][Next]_vars

\* geocode_postcodes on its own, on any list of schools
InitGeo ==
    /\ pc = "geo_load"
    /\ js = << >>
    /\ schools \in SeqsUpTo(GeoSchools, MaxGeoSchools)
    /\ disk \in InitialDisks
    /\ Fresh

NextGeo ==
    \/ geocode_load
    \/ geocode_request
    \/ geocode_response
    \/ geocode_batch_fails
    \/ geocode_sleep
    \/ geocode_persist
    \/ geocode_return

SpecGeo == InitGeo /\ [][NextGeo]_vars

\* runs of geocode_postcodes one after the other on the same schools
NextRuns ==
    \/ NextGeo
    \/ run_again

SpecRuns == InitGeo /\ [][NextRuns]_vars

\* the same, where a run may die while it writes the cache file
NextCrash ==
    \/ NextGeo
    \/ crash_in_persist
    \/ run_again
    \/ geocode_load_raises

SpecCrash == InitGeo /\ [][NextCrash]_vars

\* calculate_metrics on its own, on any counts
InitMetrics ==
    /\ pc = "metrics"
    /\ js = << >>
    /\ schools \in SeqsUpTo(MetSchools, MaxMetSchools)
    /\ disk = NoFile
    /\ Fresh

NextMetrics == calculate_metrics

SpecMetrics == InitMetrics /\ [][NextMetrics]_vars

\* build_county_data on its own, on any working set
CountyStart ==
    /\ pc = "county"
    /\ js = << >>
    /\ schools \in SeqsUpTo(AggSchoolSet, MaxAggSchools)
    /\ disk = NoFile
    /\ arg_schools = << >>
    /\ disk0 = NoFile
    /\ run = 0
    /\ prev_failed = NoneFailed
    /\ response = << >>
    /\ cached = EmptyMap
    /\ postcodes_list = << >>
    /\ batch_i = 0
    /\ requests = << >>
    /\ failed = {}
    /\ slept = {}
    /\ written = {}
    /\ region_agg = EmptyMap
    /\ region_order = << >>
    /\ already_mapped = {}
    /\ calls = 0
    /\ county_pacts = EmptyMap
    /\ county_pupils = EmptyMap
    /\ county_schools = EmptyMap
    /\ county_labels = EmptyMap
    /\ warnings = {}
    /\ direct = {}
    /\ geojson = << >>

InitCounty ==
    /\ CountyStart
    /\ region_data = RegionDataOf(schools)

NextCounty == build_county_data

SpecCounty == InitCounty /\ [][NextCounty]_vars

\* working sets for the repeated call: regions of a merge rule, of a broadcast
\* rule and of the direct step, each school with pacts
AgainRegionNames == { "London, Central", "London, East", "Scotland", "Kent", "Atlantis" }

InitCountyAgain ==
    /\ InitCounty
    /\ \A i \in 1..Len(schools) :
          schools[i].region \in AgainRegionNames /\ schools[i].pacts > 0

\* build_county_data on a working set whose headers may declare more pacts
\* than their schools add up to
InitCountyDeclared ==
    /\ CountyStart
    /\ \E more \in { 0, 40 } : region_data = RegionDataDeclaring(schools, more)

SpecCountyDeclared == InitCountyDeclared /\ [][NextCounty]_vars

\* build_county_data called repeatedly on the same inputs
NextCountyAgain ==
    \/ build_county_data
    \/ build_county_data_again

SpecCountyAgain == InitCountyAgain /\ [][NextCountyAgain]_vars

(***************************************************************************)
(* Properties                                                              *)
(***************************************************************************)
Abs(x) == IF x < 0 THEN -x ELSE x

\* build_county_data has returned
Aggregated == pc \in {"html", "done"}

\* the features as they were read from the file
Unannotated(features) == [i \in 1..Len(features) |-> [features[i] EXCEPT !.props = None]]

\* (pacts, pupils, school_count) carried by a feature, if it carries any
Counts(f) ==
    IF f.props = None THEN None
    ELSE Some(<< f.props[1].pacts, f.props[1].pupils, f.props[1].school_count >>)

\* the features whose county name is among names
FeaturesOf(names) ==
    { i \in 1..Len(geojson) : FeatureCounty(geojson[i]) \in names }

\* C1: in a full run the region and county aggregates are sums over all parsed
\* schools: region_data is what the parser derived, and every county carries
\* the pacts, pupils and school_count it would carry had no school been dropped
\* by geocode_postcodes.
C1_AggregatesCountDroppedSchools ==
    Aggregated =>
        LET parsed == Extracted(js)
            full   == BuildCounty(parsed.schools, parsed.region_data, Unannotated(geojson))
        IN  /\ region_data = parsed.region_data
            /\ \A i \in 1..Len(geojson) : Counts(geojson[i]) = Counts(full.features[i])

\* C2: geocode_postcodes returns, in input order, exactly the input schools whose
\* normalized postcode is a key of the cache, each with the cached pair as its
\* lat/lng, and none with the sentinel coordinates (0.0, 0.0).
C2_ReturnsExactlyCachedSchools ==
    pc = "metrics" =>
        LET keep == { i \in 1..Len(arg_schools) :
                        Norm(arg_schools[i].postcode) \in DOMAIN cached }
        IN  /\ [i \in 1..Len(schools) |-> schools[i].postcode]
                 = SelectIdx([i \in 1..Len(arg_schools) |-> arg_schools[i].postcode], keep, 1)
            /\ \A i \in 1..Len(schools) :
                  /\ Norm(schools[i].postcode) \in DOMAIN cached
                  /\ << schools[i].lat, schools[i].lng >> = cached[Norm(schools[i].postcode)]
                  /\ << schools[i].lat, schools[i].lng >> # << 0, 0 >>

\* every batch of a sorted list, in order
AllBatches(list) ==
    [ b \in 1..((Len(list) + batch_size - 1) \div batch_size) |->
        SubSeq(list, (b - 1) * batch_size + 1,
               IF b * batch_size < Len(list) THEN b * batch_size ELSE Len(list)) ]

\* C3: a failing batch is skipped without aborting: no exception leaves
\* geocode_postcodes, a batch's handling never removes or changes an entry of
\* the cache, and once the loop is over every batch has been requested and the
\* cache file holds the in-memory cache.
C3_FailedBatchIsSkipped ==
    /\ [](pc # "fatal")
    /\ []((pc \in {"geo_lookup", "metrics"} /\ postcodes_list # << >>) =>
            /\ requests = AllBatches(postcodes_list)
            /\ disk = File(cached))
    /\ [][pc = "geo_wait" =>
            \A k \in DOMAIN cached : k \in DOMAIN cached' /\ cached'[k] = cached[k]]_vars

\* the first of two batches failed, the second was still requested and resolved
\* a postcode, and the function returned with the cache saved
C3_Witness ==
    /\ pc = "metrics"
    /\ failed = {1}
    /\ Len(requests) = 2
    /\ \E k \in Range(requests[2]) : k \in DOMAIN cached
    /\ disk = File(cached)

\* C4: when the bundle holds no region header the run stops in
\* extract_school_data: no geocoding request, no file written by a later stage
\* (geocode cache, json, csv, html), no metrics and no aggregation.
C4_NoHeaderAbortsRun ==
    (\A i \in 1..Len(js) : js[i].type # "region") =>
        /\ pc \in {"extract", "fatal"}
        /\ requests = << >>
        /\ written = {}
        /\ schools = << >>
        /\ region_agg = EmptyMap
        /\ geojson = << >>

\* a bundle with school records but no header has been refused
C4_Witness ==
    /\ pc = "fatal"
    /\ \E i \in 1..Len(js) : js[i].type = "school"

\* the outcomes build_county_data gave region n
Outcomes(n) ==
    (IF n \in UNION { Range(MERGE_MAP[g]) : g \in DOMAIN MERGE_MAP } THEN {"merged"} ELSE {})
    \cup (IF n \in DOMAIN NATIONAL_REGIONS THEN {"broadcast"} ELSE {})
    \cup (IF n \in Omitted THEN {"omitted"} ELSE {})
    \cup (IF n \in direct THEN {"direct"} ELSE {})
    \cup (IF n \in warnings THEN {"warned"} ELSE {})

\* C5: every region name of the parsed region totals gets exactly one outcome:
\* merged, broadcast, omitted, direct-matched or warned as unmatched.
C5_EveryRegionHasOneOutcome ==
    Aggregated => \A n \in DOMAIN region_data : Cardinality(Outcomes(n)) = 1

\* C6: after calculate_metrics every school has pact_pct = 0 when pupils = 0,
\* 100.0 when pacts >= pupils > 0, and otherwise a tenth nearest to
\* pacts / pupils * 100.
C6_PactPctClamped ==
    pc = "export" =>
        \A i \in 1..Len(schools) :
            LET s == schools[i] IN
            /\ s.pact_pct # None
            /\ s.pupils = 0 => s.pact_pct[1] = 0
            /\ (s.pupils > 0 /\ s.pacts >= s.pupils) => s.pact_pct[1] = 1000
            /\ (s.pupils > 0 /\ s.pacts < s.pupils) =>
                  2 * Abs(s.pact_pct[1] * s.pupils - s.pacts * 1000) <= s.pupils

\* pacts = 120, pupils = 100 gave 100.0
C6_Witness ==
    /\ pc = "export"
    /\ \E i \in 1..Len(schools) :
          schools[i].pacts = 120 /\ schools[i].pupils = 100
          /\ schools[i].pact_pct = Some(1000)

\* C7: for each merge rule the target county's feature carries the sums, over
\* the rule's source regions, of the derived pacts, pupils and school_count.
C7_MergeTargetCarriesSum ==
    pc = "html" =>
        \A g \in DOMAIN MERGE_MAP : \A i \in FeaturesOf({g}) :
            LET src == MERGE_MAP[g] IN
            Counts(geojson[i]) =
                Some(<< SumSeq([k \in 1..Len(src) |-> AggPacts(region_agg, src[k])]),
                        SumSeq([k \in 1..Len(src) |-> AggPupils(region_agg, src[k])]),
                        SumSeq([k \in 1..Len(src) |-> AggSchools(region_agg, src[k])]) >>)

\* C8: all counties of one broadcast rule carry the same (pacts, pupils) pair
\* and the same label.
C8_BroadcastCountiesAgree ==
    pc = "html" =>
        \A n \in DOMAIN NATIONAL_REGIONS :
            \A i, j \in FeaturesOf(Range(NATIONAL_REGIONS[n])) :
                /\ geojson[i].props[1].pacts = geojson[j].props[1].pacts
                /\ geojson[i].props[1].pupils = geojson[j].props[1].pupils
                /\ geojson[i].props[1].label = geojson[j].props[1].label

\* C9: every target county of a broadcast rule carries the declared total pact
\* count of the rule's source region.
C9_BroadcastUsesDeclaredTotal ==
    Aggregated =>
        \A n \in (DOMAIN NATIONAL_REGIONS) \cap (DOMAIN region_data) :
            \A i \in FeaturesOf(Range(NATIONAL_REGIONS[n])) :
                geojson[i].props[1].pacts = region_data[n].pacts

\* C10 as stated: every feature, named or not, carries the aggregate properties.
C10_EveryFeatureAnnotated ==
    pc = "html" => \A i \in 1..Len(geojson) : geojson[i].props # None

\* C10, amended: every feature with a non-empty county name carries pacts,
\* pupils, pact_pct, school_count and label, zero / empty where no aggregate was
\* assigned to its name; a feature without a name is left as it was read.
C10_NamedFeaturesAnnotated ==
    pc = "html" =>
        \A i \in 1..Len(geojson) :
            LET f == geojson[i]
                c == FeatureCounty(f)
            IN  /\ c = "" => f.props = None
                /\ c # "" =>
                     /\ f.props # None
                     /\ c \notin DOMAIN county_pacts => f.props[1].pacts = 0
                     /\ c \notin DOMAIN county_pupils =>
                            f.props[1].pupils = 0 /\ f.props[1].pact_pct = 0
                     /\ c \notin DOMAIN county_schools => f.props[1].school_count = 0
                     /\ c \notin DOMAIN county_labels => f.props[1].label = EmptyLabel

\* a named county no region maps to carries zeros and the empty label, beside
\* a county that carries an aggregate
C10_Witness ==
    /\ pc = "html"
    /\ \E i \in 1..Len(geojson) :
          /\ FeatureCounty(geojson[i]) = "Essex"
          /\ geojson[i].props = Some([pacts |-> 0, pupils |-> 0, pact_pct |-> 0,
                                      school_count |-> 0, label |-> EmptyLabel])
    /\ \E j \in 1..Len(geojson) :
          geojson[j].props # None /\ geojson[j].props[1].pacts > 0

(***************************************************************************)
(* C11..C20                                                                *)
(***************************************************************************)
\* C11: the cache file is rewritten atomically: when the process dies at any
\* point of the persist step, the file holds either the complete contents it
\* had when the run loaded it or the complete new cache, never anything else.
C11_CrashLeavesWholeCache ==
    pc = "crashed" => disk \in { disk0, File(cached) }

\* the positions of the school records nested under the header at position h:
\* those after it with no other header in between
NestedUnder(h) ==
    { k \in (h + 1)..Len(js) :
        \A j \in (h + 1)..k : js[j].type = "school" }

RECURSIVE SumOver(_, _)
SumOver(S, f) ==
    IF S = {} THEN 0
    ELSE LET k == CHOOSE x \in S : TRUE IN f[k] + SumOver(S \ {k}, f)

\* C12: for every region header of the bundle, region_data has an entry under
\* its name that holds the declared total of that header and the aggregate
\* derived from the schools nested under it (count, summed pacts, summed
\* pupils), a header without schools included; 50 declared and 25 derived are
\* both kept.
C12_EntryPerHeader ==
    pc \notin { "extract", "fatal" } =>
        \A h \in 1..Len(js) :
            js[h].type = "region" =>
                /\ js[h].name \in DOMAIN region_data
                /\ LET e == region_data[js[h].name]
                       nested == NestedUnder(h)
                   IN  /\ e.pacts = js[h].pacts
                       /\ e.school_count = Cardinality(nested)
                       /\ e.school_pacts =
                             SumOver(nested, [k \in nested |-> js[k].pacts])
                       /\ e.pupils =
                             SumOver(nested,
                                 [k \in nested |->
                                     IF js[k].pupils = None THEN 0
                                     ELSE js[k].pupils[1]])

\* C13: calling build_county_data a second time on the same schools, region
\* data and boundary file gives every feature the same pacts, pupils,
\* school_count, pact_pct and label as the first call: nothing accumulates.
C13_SecondCallGivesSameAggregates ==
    [][ (calls >= 1 /\ calls' = calls + 1) =>
            /\ geojson' = geojson
            /\ county_pacts' = county_pacts
            /\ county_pupils' = county_pupils
            /\ county_schools' = county_schools
            /\ county_labels' = county_labels ]_vars

\* a second call has run on a working set that gives a merged county its sum
C13_Witness ==
    /\ calls = 2
    /\ "Greater London" \in DOMAIN county_pacts
    /\ county_pacts["Greater London"] > 0
    /\ \E i \in 1..Len(geojson) :
          /\ geojson[i].props # None
          /\ geojson[i].props[1].pacts = county_pacts["Greater London"]

\* C14: every annotated feature has pacts >= 0, pupils >= 0 and a pact_pct
\* between 0 and 100 (in tenths of a percent: between 0 and 1000).
C14_FeatureNumbersInRange ==
    \A i \in 1..Len(geojson) :
        geojson[i].props # None =>
            /\ geojson[i].props[1].pacts >= 0
            /\ geojson[i].props[1].pupils >= 0
            /\ geojson[i].props[1].pact_pct >= 0
            /\ geojson[i].props[1].pact_pct <= 1000

\* a county whose schools hold more pacts than pupils is annotated with 100.0,
\* next to a county left at zero
C14_Witness ==
    /\ Aggregated
    /\ \E i \in 1..Len(geojson) :
          /\ geojson[i].props # None
          /\ geojson[i].props[1].pupils > 0
          /\ geojson[i].props[1].pacts > geojson[i].props[1].pupils
          /\ geojson[i].props[1].pact_pct = 1000
    /\ \E i \in 1..Len(geojson) :
          /\ geojson[i].props # None
          /\ geojson[i].props[1].pacts = 0
          /\ geojson[i].props[1].pact_pct = 0

\* the well-typed items of the response just handled whose result is null or missing
NullItems == { i \in 1..Len(response) : response[i].typed /\ ~ response[i].present }

SchoolsUnderAHeader ==
    { k \in 1..Len(js) :
        js[k].type = "school" /\ \E h \in 1..k : js[h].type = "region" }

\* the header a school record at position k belongs to: the last one that
\* starts at or before it
LastHeaderBefore(k) ==
    CHOOSE h \in 1..k :
        /\ js[h].type = "region"
        /\ \A j \in (h + 1)..k : js[j].type = "school"

\* the positions in S in increasing order
RECURSIVE Ascending(_)
Ascending(S) ==
    IF S = {} THEN << >>
    ELSE LET m == CHOOSE x \in S : \A y \in S : x <= y
         IN  << m >> \o Ascending(S \ {m})

\* C16: every parsed school is attributed to exactly one region, the one whose
\* header is the last header starting at or before the school record: the
\* parser returns one school per record under a header, carrying that header's
\* name, and the spans are half-open and pairwise disjoint.
C16_SchoolBelongsToLastHeader ==
    pc = "geo_load" =>
        LET at == Ascending(SchoolsUnderAHeader)
            spans == region_spans(js)
        IN  /\ Len(schools) = Len(at)
            /\ \A n \in 1..Len(at) :
                  /\ schools[n].region = js[LastHeaderBefore(at[n])].name
                  /\ schools[n].pacts = js[at[n]].pacts
                  /\ schools[n].postcode = js[at[n]].postcode
                  /\ Cardinality({ i \in 1..Len(spans) :
                        spans[i].start <= at[n] /\ at[n] < spans[i].end }) = 1
            /\ \A a, b \in 1..Len(spans) :
                  a < b => spans[a].end <= spans[b].start

\* a bundle with two headers of different names, each followed by a school
C16_Witness ==
    /\ pc = "geo_load"
    /\ Len(schools) = 2
    /\ schools[1].region = "Wales"
    /\ schools[2].region = "Kent"
    /\ Len(region_spans(js)) = 2

\* the postcodes of all requests of the run so far, in the order sent
RECURSIVE Sent(_)
Sent(reqs) == IF reqs = << >> THEN << >> ELSE Head(reqs) \o Sent(Tail(reqs))

\* the keys of the cache file as the run loaded it
LoadedKeys == IF disk0.exists THEN DOMAIN disk0.content ELSE {}

\* C17: the postcodes sent in one run are exactly the distinct normalized
\* non-empty postcodes of the input schools that are not in the cache loaded
\* at the start of the run; they go out in batches of at most batch_size, each
\* postcode in exactly one request, and no cached postcode in any request.
C17_RequestsAreTheNewPostcodes ==
    pc \in { "geo_batch", "geo_wait", "geo_sleep", "geo_persist",
             "geo_lookup", "metrics" } =>
        LET sent == Sent(requests)
            new  == { p \in { Norm(arg_schools[i].postcode) : i \in 1..Len(arg_schools) } :
                        p # << >> /\ p \notin LoadedKeys }
        IN  /\ \A b \in 1..Len(requests) :
                  Len(requests[b]) >= 1 /\ Len(requests[b]) <= batch_size
            /\ \A i, j \in 1..Len(sent) : sent[i] = sent[j] => i = j
            /\ Range(sent) \subseteq new
            /\ Range(sent) \cap LoadedKeys = {}
            /\ pc \in { "geo_lookup", "metrics" } => Range(sent) = new

\* a run over three schools, one of them cached, two of them with the same
\* postcode written differently: one request with one postcode has been sent
C17_Witness ==
    /\ pc = "metrics"
    /\ Len(arg_schools) = 3
    /\ LoadedKeys # {}
    /\ \E i \in 1..3 : Norm(arg_schools[i].postcode) \in LoadedKeys
    /\ \E i, j \in 1..3 :
          /\ i # j
          /\ arg_schools[i].postcode # arg_schools[j].postcode
          /\ Norm(arg_schools[i].postcode) = Norm(arg_schools[j].postcode)
    /\ Len(requests) = 1

\* the run before this one has ended and left its cache file
PreviousRunEnded == run >= 1 /\ pc = "geo_load"

\* the second or a later run has sent all its requests
LaterRunEnded == run >= 2 /\ pc \in { "geo_lookup", "metrics" }

ResolvedKeys == DOMAIN cached \ LoadedKeys

\* C19: whenever a run resolves at least one new postcode, the cache file at
\* the moment geocode_postcodes returns holds every entry loaded at the start
\* of the run and every entry resolved during the run, also when some batches
\* of the run failed.
C19_ReturnLeavesLoadedAndResolvedOnDisk ==
    (pc = "metrics" /\ ResolvedKeys # {}) =>
        /\ disk.exists
        /\ ~ disk.torn
        /\ \A k \in LoadedKeys :
              k \in DOMAIN disk.content /\ disk.content[k] = disk0.content[k]
        /\ \A k \in ResolvedKeys :
              k \in DOMAIN disk.content /\ disk.content[k] = cached[k]

\* a run that loaded an entry, resolved another and had a failed batch
C19_Witness ==
    /\ pc = "metrics"
    /\ LoadedKeys # {}
    /\ ResolvedKeys # {}
    /\ failed # {}
    /\ (LoadedKeys \cup ResolvedKeys) \subseteq DOMAIN disk.content

\* the regions listed in a merge rule, in a broadcast rule or in the omitted set
ListedRegions == MergeSources \cup Range(NATIONAL_SOURCES) \cup Omitted

\* C20: no region is processed by more than one rule: a region listed in a
\* merge rule, in a broadcast rule or in the omitted set is never handled by
\* the direct-match / rename step and never gets an unmatched warning, whether
\* or not it contributed data; County Durham, which is also in the rename
\* table, is only merged.
C20_ListedRegionsSkipDirectStep ==
    Aggregated =>
        \A n \in ListedRegions : n \notin direct /\ n \notin warnings

\* County Durham and the Isle of Man both have schools, next to a Durham
\* feature: Durham carries County Durham's merged schools, nothing was
\* assigned directly and nothing was warned about
C20_Witness ==
    /\ Aggregated
    /\ { "County Durham", "Isle of Man" } \subseteq DOMAIN region_agg
    /\ "Durham" \in GeoNames(geojson)
    /\ "Durham" \in DOMAIN county_schools
    /\ county_schools["Durham"] = region_agg["County Durham"].school_count
    /\ direct = {}
    /\ warnings = {}

(***************************************************************************)
(* C21..C26                                                                *)
(***************************************************************************)
\* the regions of merge rule g that the bundle declares a nonzero total for,
\* in rule order, each with that declared total
DeclaredParts(g) ==
    LET src == SelectSeq(MERGE_MAP[g],
                         LAMBDA n : n \in DOMAIN region_data /\ region_data[n].pacts > 0)
    IN  [ i \in 1..Len(src) |-> [name |-> src[i], pacts |-> region_data[src[i]].pacts] ]

\* C21: for each merge rule the target county's label is non-empty exactly
\* when more than one listed source region contributes a nonzero pact count,
\* and it is then the concatenation, in rule order, of each nonzero
\* contributor's name with its declared total; with zero or one nonzero
\* contributor the label is empty.
C21_MergeLabelListsDeclaredTotals ==
    Aggregated =>
        \A g \in DOMAIN MERGE_MAP :
            Get(county_labels, g, EmptyLabel) =
                IF Len(DeclaredParts(g)) > 1 THEN MergeLabel(DeclaredParts(g))
                ELSE EmptyLabel

\* C22: every annotated feature's pact_pct is the rule of calculate_metrics
\* applied to the feature's own (pacts, pupils), 0 when pupils is 0, and never
\* a region's percentage carried over; for a merged county that is the rule
\* applied to the summed pacts and the summed pupils.
C22_CountyPctRecomputed ==
    \A i \in 1..Len(geojson) :
        geojson[i].props # None =>
            geojson[i].props[1].pact_pct =
                SchoolPct(geojson[i].props[1].pacts, geojson[i].props[1].pupils)

\* Greater London merged from a region at 62.5 % (10 of 16) and a region with
\* 5 pacts and no pupils: its feature carries 15 of 16, 93.8 %
C22_Witness ==
    /\ pc = "html"
    /\ "London, Central" \in DOMAIN region_agg
    /\ "London, East" \in DOMAIN region_agg
    /\ { region_agg["London, Central"].pact_pct,
         region_agg["London, East"].pact_pct } = { 625, 0 }
    /\ \E i \in FeaturesOf({ "Greater London" }) :
          /\ geojson[i].props # None
          /\ geojson[i].props[1].pacts = 15
          /\ geojson[i].props[1].pupils = 16
          /\ geojson[i].props[1].pact_pct = 938

\* floor(min(pacts * 100 / pupils, 100) * 10 + 1/2), in tenths, for pupils > 0
HalfUp(pacts, pupils) ==
    IF pacts >= pupils THEN 1000
    ELSE (2000 * pacts + pupils) \div (2 * pupils)

\* C23: the percentage is rounded half-up to one decimal place at every
\* level: for pupils > 0 the school-level, region-level and county-level
\* results all equal floor(min(pacts * 100 / pupils, 100) * 10 + 1/2) / 10, so
\* 1 pact for 400 pupils (0.25) gives 0.3.
C23_RoundsHalfUp ==
    /\ \A i \in 1..Len(schools) :
          (schools[i].pact_pct # None /\ schools[i].pupils > 0) =>
              schools[i].pact_pct[1] = HalfUp(schools[i].pacts, schools[i].pupils)
    /\ \A n \in DOMAIN region_agg :
          region_agg[n].pupils > 0 =>
              region_agg[n].pact_pct = HalfUp(region_agg[n].pacts, region_agg[n].pupils)
    /\ \A i \in 1..Len(geojson) :
          (geojson[i].props # None /\ geojson[i].props[1].pupils > 0) =>
              geojson[i].props[1].pact_pct =
                  HalfUp(geojson[i].props[1].pacts, geojson[i].props[1].pupils)

\* C24: batch requests are issued strictly one at a time, and between the
\* completion of a batch, successful or failed, and the start of the next
\* request there is always the inter-batch delay: a request is sent only when
\* none is in flight and the delay has run after every batch before it.
C24_OneRequestAtATimeWithDelay ==
    /\ [][ requests' # requests =>
              /\ pc # "geo_wait"
              /\ pc' = "geo_wait"
              /\ Len(requests') = Len(requests) + 1
              /\ slept = 1..Len(requests) ]_vars
    /\ [][ (pc = "geo_wait" /\ pc' # "geo_wait") =>
              /\ pc' \in { "geo_sleep", "geo_persist" }
              /\ requests' = requests ]_vars

\* the second request is in flight after the first batch failed and the
\* delay ran
C24_Witness ==
    /\ pc = "geo_wait"
    /\ Len(requests) = 2
    /\ failed = { 1 }
    /\ slept = { 1 }

\* the rules of build_county_data that assigned an aggregate to county c
Assigners(c) ==
    { << "merge", g >> : g \in { g \in DOMAIN MERGE_MAP :
          /\ g = c
          /\ \E k \in 1..Len(MERGE_MAP[g]) : MERGE_MAP[g][k] \in DOMAIN region_agg } }
    \cup { << "broadcast", n >> : n \in { n \in DOMAIN NATIONAL_REGIONS :
          c \in Range(NATIONAL_REGIONS[n]) /\ n \in DOMAIN region_agg } }
    \cup { << "direct", n >> : n \in { n \in direct : DirectTarget(n) = c } }

\* C25: each county name receives its aggregate from at most one rule: a
\* direct or renamed match never overwrites what a merge or a broadcast
\* assigned (an input region literally named Durham, Greater London or Fife),
\* and a county whose aggregate comes from a direct match never carries a
\* merge or broadcast label.
C25_OneRulePerCounty ==
    Aggregated =>
        /\ \A c \in GeoNames(geojson) : Cardinality(Assigners(c)) <= 1
        /\ \A n \in direct :
              Get(county_labels, DirectTarget(n), EmptyLabel) = EmptyLabel

\* the positions of the returned schools that carry region name n
SchoolsOfRegion(n) == { i \in 1..Len(schools) : schools[i].region = n }

\* C26: parser conservation: after extract_school_data, whatever the sequence
\* of region headers, repeated names included, the school_count of the
\* region_data entries adds up to the number of schools returned, and every
\* entry's school_pacts and pupils are the sums over the returned schools that
\* carry its region name.
C26_ParserConservation ==
    pc = "geo_load" =>
        /\ SumOver(DOMAIN region_data,
                   [n \in DOMAIN region_data |-> region_data[n].school_count])
              = Len(schools)
        /\ \A n \in DOMAIN region_data :
              LET of == SchoolsOfRegion(n) IN
              /\ region_data[n].school_pacts =
                    SumOver(of, [i \in of |-> schools[i].pacts])
              /\ region_data[n].pupils =
                    SumOver(of, [i \in of |-> schools[i].pupils])

====
